---- MODULE Spec2Model ----
(***************************************************************************)
(* Model of the BEBB dummy-letter tooling:                                 *)
(*   src/marc_handler.py    fetch / cache / decode of MARC records         *)
(*   src/number_handler.py  choice of the system numbers to work with      *)
(***************************************************************************)
EXTENDS Integers, Sequences, FiniteSets, TLC

\* ------------------------------------------------------------------ bounds

\* Number of distinct system numbers the marc model handles.
NumIds == 2
\* Longest identifier list handed to get_info_from_aleph.
MaxNos == 2

Ids == 1..NumIds

\* ------------------------------------------------------- raw records, codec

(* A raw record is a byte string.  As in MARC21 its first item states the   *)
(* record length; the remaining items are the content.                      *)
RawRecords == {<<2, 1>>, <<2, 2>>, <<3, 1>>}

None == [kind |-> "None"]
FormatError == [kind |-> "FormatError"]
ConnectionError == [kind |-> "ConnectionError"]

(* MARCReader(bytes(data)) followed by next(reader): an empty byte string   *)
(* ends the iteration at once, a record whose stated length is not its      *)
(* length is refused; in both cases next(reader) raises.                    *)
Decode(data) ==
    IF Len(data) = 0 \/ data[1] # Len(data)
    THEN FormatError
    ELSE [kind |-> "record", leader |-> data[1], fields |-> Tail(data)]

\* What one Z39.50 session can end in: the bytes of res[0], or zoom.ConnectionError.
RemoteOutcomes ==
    {[kind |-> "data", data |-> d] : d \in RawRecords} \cup {ConnectionError}

\* ------------------------------------------------------------------- state

VARIABLES
    force_all,   \* marc_handler.force_all
    is_test,     \* marc_handler.is_test
    no_list,     \* marc_handler.no_list
    cache,       \* data/tmp/marc/<no>.marc : system number -> bytes (a partial map)
    pc,          \* where the caller of marc_handler stands
    i,           \* position of the next list element in the loop of get_info_from_aleph
    res,         \* the list res of get_info_from_aleph
    last,        \* the most recent per-identifier operation and what it did
    log          \* the fetches of the running batch, in the order they were made

mvars == <<force_all, is_test, no_list, cache, pc, i, res, last, log>>

NoOp == [op |-> "none", no |-> 0, before |-> {}, calls |-> <<>>, ret |-> None]

\* Sequences over S of length at most n.
SeqUpTo(S, n) == UNION {[1..k -> S] : k \in 0..n}

\* os.path.isfile("data/tmp/marc/" + no + ".marc")
isfile(no) == no \in DOMAIN cache

\* The content of the cache file of no, as a set: empty when there is no file.
Entry(c, no) == IF no \in DOMAIN c THEN {c[no]} ELSE {}

\* open(path, "wb").write(marc): the file of no holds marc, the others are untouched.
WriteFile(marc, no) ==
    [x \in DOMAIN cache \cup {no} |-> IF x = no THEN marc ELSE cache[x]]

\* Mutant: the forced run is left out of the write policy.
write_to_cache_unforced(marc, no) ==
    IF is_test \/ ~isfile(no)
    THEN WriteFile(marc, no)
    ELSE cache

\* Mutant: the write policy is dropped, every fetch writes.
write_to_cache_always(marc, no) == WriteFile(marc, no)

\* Mutant: the existence test of the write policy is inverted.
write_to_cache_inverted(marc, no) ==
    IF force_all \/ is_test \/ isfile(no)
    THEN WriteFile(marc, no)
    ELSE cache

\* __write_to_cache(marc, no): the cache after the call.
write_to_cache(marc, no) ==
    IF force_all \/ is_test \/ ~isfile(no)
    THEN WriteFile(marc, no)
    ELSE cache

\* __read_mc_from_cache(no): the value returned, or the error raised.
read_mc_from_cache(no) == Decode(cache[no])

\* Mutant: the bytes are cached only once they have been decoded.
read_mc_decode_first(sys_no, outcome) ==
    IF outcome = ConnectionError
    THEN [cache |-> cache, calls |-> <<outcome>>, ret |-> None]
    ELSE [cache |-> IF Decode(outcome.data) = FormatError
                    THEN cache
                    ELSE write_to_cache(outcome.data, sys_no),
          calls |-> <<outcome>>,
          ret   |-> Decode(outcome.data)]

\* Mutant: the cache is written before the session is known to have succeeded.
read_mc_write_on_failure(sys_no, outcome) ==
    IF outcome = ConnectionError
    THEN [cache |-> write_to_cache(<<>>, sys_no), calls |-> <<outcome>>, ret |-> None]
    ELSE [cache |-> write_to_cache(outcome.data, sys_no),
          calls |-> <<outcome>>,
          ret   |-> Decode(outcome.data)]

(* read_mc(sys_no) when the session ends in outcome: the cache afterwards,   *)
(* the remote calls made, and the value returned (or the error raised).      *)
read_mc(sys_no, outcome) ==
    IF outcome = ConnectionError
    THEN [cache |-> cache, calls |-> <<outcome>>, ret |-> None]
    ELSE [cache |-> write_to_cache(outcome.data, sys_no),
          calls |-> <<outcome>>,
          ret   |-> Decode(outcome.data)]

\* Mutant: the cache is not consulted, every fetch goes to the catalogue.
get_marc_always_remote(no, outcome) == read_mc(no, outcome)

\* get_marc(no); outcome is what a remote session would end in if one is opened.
get_marc(no, outcome) ==
    IF force_all
    THEN read_mc(no, outcome)
    ELSE IF isfile(no)
         THEN [cache |-> cache, calls |-> <<>>, ret |-> read_mc_from_cache(no)]
         ELSE read_mc(no, outcome)

\* The record kept of one per-identifier operation.
Observed(op, no, r) ==
    [op |-> op, no |-> no, before |-> Entry(cache, no), calls |-> r.calls, ret |-> r.ret]

\* Mutant: the outcome is put in front of the list.
LoopAppendFront(ret) == <<ret>> \o res

\* Line 53, res.append(get_marc(no)): the list res after the call.
LoopAppend(ret) == Append(res, ret)

\* Mutant: a fetch that yields no record is left out of the list.
TestAppendSkipNone(ret) == IF ret = None THEN res ELSE Append(res, ret)

\* Line 44, res.append(test_mc()): the list res after the call.
TestAppend(ret) == Append(res, ret)

\* The caller may start an operation of the module.
Callable == pc = "idle"

\* ----------------------------------------------------------------- actions

\* get_info_from_aleph(nos, force, test), lines 31-48: the globals are set, res = [].
StartBatch(nos, force, test) ==
    /\ Callable
    /\ force_all' = force
    /\ is_test' = test
    /\ no_list' = nos
    /\ res' = <<>>
    /\ i' = 1
    /\ pc' = IF test THEN "test" ELSE "loop"
    /\ last' = NoOp
    /\ log' = <<>>
    /\ UNCHANGED cache

\* Mutant: the loop consumes the global list it iterates over.
LoopStepPop(outcome) ==
    /\ pc = "loop"
    /\ i <= Len(no_list)
    /\ LET no == no_list[i]
           r  == get_marc(no, outcome)
       IN /\ cache' = r.cache
          /\ last' = Observed("get_marc", no, r)
          /\ log' = Append(log, [no |-> no, ret |-> r.ret])
          /\ IF r.ret = FormatError
             THEN /\ pc' = "aborted"
                  /\ UNCHANGED <<res, i, no_list>>
             ELSE /\ res' = Append(res, r.ret)
                  /\ no_list' = Tail(no_list)
                  /\ i' = i
                  /\ pc' = pc
    /\ UNCHANGED <<force_all, is_test>>

(* One iteration of the loop of get_info_from_aleph: res.append(get_marc(no)). *)
(* An error raised by the decoder is caught nowhere and ends the batch.        *)
LoopStep(outcome) ==
    /\ pc = "loop"
    /\ i <= Len(no_list)
    /\ LET no == no_list[i]
           r  == get_marc(no, outcome)
       IN /\ cache' = r.cache
          /\ last' = Observed("get_marc", no, r)
          /\ log' = Append(log, [no |-> no, ret |-> r.ret])
          /\ IF r.ret = FormatError
             THEN /\ pc' = "aborted"
                  /\ UNCHANGED <<res, i>>
             ELSE /\ res' = LoopAppend(r.ret)
                  /\ i' = i + 1
                  /\ pc' = pc
    /\ UNCHANGED <<force_all, is_test, no_list>>

\* The loop is through: return res.
LoopDone ==
    /\ pc = "loop"
    /\ i > Len(no_list)
    /\ pc' = "done"
    /\ UNCHANGED <<force_all, is_test, no_list, cache, i, res, last, log>>

(* res.append(test_mc()): random.randint(0, len(no_list)-1) raises on an     *)
(* empty list; otherwise read_mc of the element drawn.                       *)
TestStep(k, outcome) ==
    /\ pc = "test"
    /\ IF no_list = <<>>
       THEN /\ pc' = "aborted"
            /\ UNCHANGED <<cache, res, last, log>>
       ELSE /\ k \in 1..Len(no_list)
            /\ LET no == no_list[k]
                   r  == read_mc(no, outcome)
               IN /\ cache' = r.cache
                  /\ last' = Observed("test_mc", no, r)
                  /\ log' = Append(log, [no |-> no, ret |-> r.ret])
                  /\ IF r.ret = FormatError
                     THEN /\ pc' = "aborted"
                          /\ UNCHANGED res
                     ELSE /\ res' = TestAppend(r.ret)
                          /\ pc' = "done"
    /\ UNCHANGED <<force_all, is_test, no_list, i>>

\* A caller outside a batch calls get_marc(no) with the globals as they stand.
CallGetMarc(no, outcome) ==
    /\ Callable
    /\ LET r == get_marc(no, outcome)
       IN /\ cache' = r.cache
          /\ last' = Observed("get_marc", no, r)
    /\ pc' = "called"
    /\ UNCHANGED <<force_all, is_test, no_list, i, res, log>>

\* A caller outside a batch calls read_mc(sys_no) with the globals as they stand.
CallReadMc(sys_no, outcome) ==
    /\ Callable
    /\ LET r == read_mc(sys_no, outcome)
       IN /\ cache' = r.cache
          /\ last' = Observed("read_mc", sys_no, r)
    /\ pc' = "called"
    /\ UNCHANGED <<force_all, is_test, no_list, i, res, log>>

(* The operation has returned (or raised) and its caller goes on: the locals *)
(* of the call are gone, the globals and the files stay as they are.         *)
Return ==
    /\ pc \in {"done", "aborted", "called"}
    /\ pc' = "idle"
    /\ i' = 1
    /\ res' = <<>>
    /\ last' = NoOp
    /\ log' = <<>>
    /\ UNCHANGED <<force_all, is_test, no_list, cache>>

(* The process ends and a new one imports the module: lines 16-18 run again, *)
(* the files under data/tmp/marc stay.                                       *)
Restart ==
    /\ Callable
    /\ force_all' = FALSE
    /\ is_test' = FALSE
    /\ no_list' = <<>>
    /\ pc' = "idle"
    /\ i' = 1
    /\ res' = <<>>
    /\ last' = NoOp
    /\ log' = <<>>
    /\ UNCHANGED cache

MarcInit ==
    /\ force_all = FALSE
    /\ is_test = FALSE
    /\ no_list = <<>>
    /\ cache = <<>>
    /\ pc = "idle"
    /\ i = 1
    /\ res = <<>>
    /\ last = NoOp
    /\ log = <<>>



\* ============================================================ number_handler

\* Most XML files the directory data/input/xml comes to hold.
MaxXml == 2
\* Line 202, range(5): the size of the random sample of a test run.
SampleSize == 5

(* A string is a sequence of characters; " " and "\n" are the whitespace     *)
(* characters that str.strip() removes.                                      *)
NL == "\n"
Whitespace == {" ", NL}

\* The contents data/input/all_numbers.txt may have (one behaviour keeps one).
MasterTexts ==
    { <<>>,
      <<"1", NL>>,
      <<" ", "1", NL, "2", NL>>,
      <<"2", NL, "1", " ", NL, "2">> }

(* What root.get("catalogue_id") can give for one XML file: the attribute    *)
(* (possibly padded), nothing when the file cannot be read (OSError), None   *)
(* when the root element has no such attribute.                              *)
XmlFiles ==
    { [kind |-> "xml", catalogue_id |-> <<"1">>],
      [kind |-> "xml", catalogue_id |-> <<"2", " ">>],
      [kind |-> "unreadable"],
      [kind |-> "no_attribute"] }

\* Python's None where a string is expected: no string equals it.
NoneValue == <<"None">>

VARIABLES
    nh_force_all,     \* number_handler.force_all
    nh_is_test,       \* number_handler.is_test
    testable,         \* number_handler.testable: {} for None, else {the number}
    all_numbers_txt,  \* data/input/all_numbers.txt
    xml,              \* the files of data/input/xml, in the order os.listdir gives
    existing_numbers, \* data/tmp/existing_numbers.txt: {} when absent, else {its text}
    nh_pc,            \* where the caller of number_handler stands
    used_numbers,     \* line 54: what get_used_sys_no_list returned
    list_for_dummies  \* what get_sys_nos_to_work_with returned

nvars == <<nh_force_all, nh_is_test, testable, all_numbers_txt, xml,
           existing_numbers, nh_pc, used_numbers, list_for_dummies>>

RECURSIVE lstrip(_)
lstrip(str) ==
    IF str # <<>> /\ Head(str) \in Whitespace THEN lstrip(Tail(str)) ELSE str

RECURSIVE rstrip(_)
rstrip(str) ==
    IF str # <<>> /\ str[Len(str)] \in Whitespace
    THEN rstrip(SubSeq(str, 1, Len(str) - 1))
    ELSE str

\* str.strip()
strip(str) == rstrip(lstrip(str))

\* crop_list(lst)
crop_list(lst) == [k \in 1..Len(lst) |-> strip(lst[k])]

\* The length of the first line of text, its "\n" included.
RECURSIVE LineEnd(_, _)
LineEnd(text, k) ==
    IF k >= Len(text) \/ text[k] = NL THEN k ELSE LineEnd(text, k + 1)

\* f.readlines(): the lines of text, each with its "\n" when it has one.
RECURSIVE ReadLines(_)
ReadLines(text) ==
    IF text = <<>>
    THEN <<>>
    ELSE LET e == LineEnd(text, 1)
         IN <<SubSeq(text, 1, e)>> \o ReadLines(SubSeq(text, e + 1, Len(text)))

\* get_all_sys_nos()
get_all_sys_nos == crop_list(ReadLines(all_numbers_txt))

\* get_by_name(name)
get_by_name(f) ==
    CASE f.kind = "unreadable"   -> <<>>
      [] f.kind = "no_attribute" -> NoneValue
      [] OTHER                   -> f.catalogue_id

\* grab_used_nos()
grab_used_nos == [k \in 1..Len(xml) |-> get_by_name(xml[k])]

(* write_used_nos(used_nos): the file is opened for writing (and so exists,  *)
(* empty), then l + "\n" is written for each element; None + "\n" raises and *)
(* leaves the lines written so far.                                          *)
RECURSIVE write_used_nos(_)
write_used_nos(used_nos) ==
    IF used_nos = <<>>
    THEN [text |-> <<>>, raised |-> FALSE]
    ELSE IF Head(used_nos) = NoneValue
         THEN [text |-> <<>>, raised |-> TRUE]
         ELSE LET rest == write_used_nos(Tail(used_nos))
              IN [text   |-> Head(used_nos) \o <<NL>> \o rest.text,
                  raised |-> rest.raised]

\* read_used_nos()
read_used_nos == ReadLines(CHOOSE t \in existing_numbers : TRUE)

\* Lines 110-111 and 117-118: grab_used_nos() followed by write_used_nos(used_nos).
Regenerate ==
    LET w == write_used_nos(grab_used_nos)
    IN [file |-> {w.text}, raised |-> w.raised, used |-> crop_list(grab_used_nos)]

\* Mutant: the cached list is never used, the XML files are read on every run.
get_used_sys_no_list_uncached(force, test) == Regenerate

\* Mutant: a test run uses the cached list like a normal run.
get_used_sys_no_list_test_cached(force, test) ==
    IF force \/ existing_numbers = {}
    THEN Regenerate
    ELSE [file |-> existing_numbers, raised |-> FALSE,
          used |-> crop_list(read_used_nos)]

(* get_used_sys_no_list() with the flags as given: the file afterwards,      *)
(* whether the call raised, and the list returned.                           *)
get_used_sys_no_list(force, test) ==
    IF force \/ test
    THEN Regenerate
    ELSE IF existing_numbers # {}
         THEN [file |-> existing_numbers, raised |-> FALSE,
               used |-> crop_list(read_used_nos)]
         ELSE Regenerate

\* Lines 194-197: the numbers of all_nos that are not in used, in the order of all_nos.
NotUsed(all_nos, used) ==
    LET Unused(no) == \A k \in 1..Len(used) : used[k] # no
    IN SelectSeq(all_nos, Unused)

(* get_list_of_numbers_to_work_with(all_nos, used) with the flags as given:  *)
(* the set of its possible results (random.randint draws), each a value      *)
(* returned or an error raised (randint on an empty range).                  *)
get_list_of_numbers_to_work_with(all_nos, used, test, testable_no) ==
    LET r == NotUsed(all_nos, used)
    IN IF test
       THEN IF testable_no = {}
            THEN IF r = <<>>
                 THEN {[raised |-> TRUE, value |-> <<>>]}
                 ELSE {[raised |-> FALSE, value |-> [j \in 1..SampleSize |-> r[pick[j]]]] :
                         pick \in [1..SampleSize -> 1..Len(r)]}
            ELSE {[raised |-> FALSE, value |-> <<CHOOSE t \in testable_no : TRUE>>]}
       ELSE {[raised |-> FALSE, value |-> crop_list(r)]}

\* The caller may start an operation of number_handler.
NhCallable == nh_pc = "idle"

(* get_sys_nos_to_work_with(force, test, testable_no): the globals are set,  *)
(* then get_all_sys_nos, get_used_sys_no_list and                            *)
(* get_list_of_numbers_to_work_with run; an error raised on the way ends     *)
(* the call.                                                                 *)
GetSysNos(force, test, testable_no) ==
    /\ NhCallable
    /\ nh_force_all' = force
    /\ nh_is_test' = test
    /\ testable' = testable_no
    /\ LET u == get_used_sys_no_list(force, test)
       IN /\ existing_numbers' = u.file
          /\ used_numbers' = IF u.raised THEN <<>> ELSE u.used
          /\ IF u.raised
             THEN /\ nh_pc' = "raised"
                  /\ list_for_dummies' = <<>>
             ELSE \E out \in get_list_of_numbers_to_work_with(
                                 get_all_sys_nos, u.used, test, testable_no) :
                     /\ nh_pc' = IF out.raised THEN "raised" ELSE "returned"
                     /\ list_for_dummies' = out.value
    /\ UNCHANGED <<all_numbers_txt, xml>>

\* The call has returned (or raised) and its caller goes on.
NhReturn ==
    /\ nh_pc \in {"returned", "raised"}
    /\ nh_pc' = "idle"
    /\ used_numbers' = <<>>
    /\ list_for_dummies' = <<>>
    /\ UNCHANGED <<nh_force_all, nh_is_test, testable, all_numbers_txt, xml,
                   existing_numbers>>

\* Between two runs an XML file is put into data/input/xml.
AddXml(f) ==
    /\ NhCallable
    /\ Len(xml) < MaxXml
    /\ xml' = Append(xml, f)
    /\ UNCHANGED <<nh_force_all, nh_is_test, testable, all_numbers_txt,
                   existing_numbers, nh_pc, used_numbers, list_for_dummies>>

\* The numbers a test run can be told to work on.
TestableNos == {{}, {<<"1">>}, {<<"3">>}}

NumInit ==
    /\ nh_force_all = FALSE
    /\ nh_is_test = FALSE
    /\ testable = {}
    /\ all_numbers_txt \in MasterTexts
    /\ xml = <<>>
    /\ existing_numbers = {}
    /\ nh_pc = "idle"
    /\ used_numbers = <<>>
    /\ list_for_dummies = <<>>

\* The state of number_handler while only marc_handler is exercised.
\* ============================================= marc_handler, field extraction

\* Most fields a structured record of the model holds.
MaxFields == 2

(* Python values: a text string, a byte string, None; the characters are a   *)
(* sequence.                                                                 *)
PyStr(chars) == [type |-> "str", chars |-> chars]
PyBytes(chars) == [type |-> "bytes", chars |-> chars]
PyNone == [type |-> "NoneType", chars |-> <<>>]

\* What an attribute access on None ends in (None.encode).
AttributeError == [type |-> "AttributeError", chars |-> <<>>]
\* What field[0] on an empty list ends in.
IndexError == [type |-> "IndexError", chars |-> <<>>]

IsError(v) == v.type \in {"AttributeError", "IndexError"}

VARIABLES
    records,    \* the structured record handed to the extraction functions
    python,     \* the interpreter the module runs under: "2" or "3"
    extracted   \* the extraction function called last and what it gave

xvars == <<records, python, extracted>>

(* A field of a record: its tag and its subfields, code -> characters.       *)
(* field[code] is the subfield's text, or None when the field has no such    *)
(* subfield; code in field tells whether it has one.                         *)
Sub(field, code) ==
    IF code \in DOMAIN field.sub THEN PyStr(field.sub[code]) ELSE PyNone

Has(field, code) == code \in DOMAIN field.sub

\* record.get_fields(tag): the fields of that tag, in record order.
get_fields(rec, tag) ==
    LET IsTag(f) == f.tag = tag
    IN SelectSeq(rec, IsTag)

(* value.encode('utf-8'): None has no encode; a text string gives a byte     *)
(* string under Python 3 and a plain string again under Python 2.            *)
encode(v) ==
    IF v.type # "str"
    THEN AttributeError
    ELSE IF python = "3" THEN PyBytes(v.chars) ELSE PyStr(v.chars)

\* value.replace(',', '')
RemoveCommas(v) ==
    LET NotComma(c) == c # ","
    IN PyStr(SelectSeq(v.chars, NotComma))

\* A dictionary with key k set to v.
DictSet(d, k, v) == [x \in DOMAIN d \cup {k} |-> IF x = k THEN v ELSE d[x]]

\* What an extraction function gives: a value returned, or an error raised.
Returned(v) == [raised |-> FALSE, value |-> v]
Raised(e) == [raised |-> TRUE, value |-> e]

\* get_system_number(record)
get_system_number(rec) ==
    LET field == get_fields(rec, "035")
    IN IF field = <<>>
       THEN Raised(IndexError)
       ELSE IF IsError(encode(Sub(field[1], "a")))
            THEN Raised(AttributeError)
            ELSE Returned(encode(Sub(field[1], "a")))

\* get_date(records)
get_date(rec) ==
    LET fs == get_fields(rec, "046")
    IN IF \E k \in 1..Len(fs) : IsError(encode(Sub(fs[k], "c")))
       THEN Raised(AttributeError)
       ELSE IF fs = <<>>
            THEN Returned(PyNone)
            ELSE Returned(encode(Sub(fs[Len(fs)], "c")))

(* __check_for_gnd(marcField, GNDIndex): the dictionary of one person, or    *)
(* the error of marcField['a'].encode when the field has no subfield a.      *)
check_for_gnd(marcField, GNDIndex) ==
    LET date == IF Sub(marcField, "d") # PyNone THEN Sub(marcField, "d") ELSE PyStr(<<>>)
        GND  == IF Sub(marcField, GNDIndex) = PyNone
                THEN PyStr(<<"n", "o", "_", "G", "N", "D">>)
                ELSE RemoveCommas(Sub(marcField, GNDIndex))
        role == IF Sub(marcField, "4") # PyNone THEN Sub(marcField, "4") ELSE PyStr(<<>>)
    IN IF IsError(encode(Sub(marcField, "a")))
       THEN Raised(AttributeError)
       ELSE Returned([GND  |-> encode(GND),
                      name |-> encode(Sub(marcField, "a")),
                      date |-> encode(date),
                      role |-> encode(role)])

\* The persons of the fields fs, each through __check_for_gnd.
Persons(fs) == [k \in 1..Len(fs) |-> check_for_gnd(fs[k], "0")]

SomeRaised(ps) == \E k \in 1..Len(ps) : ps[k].raised

\* The dictionaries of those persons whose role equals the text string role.
WithRole(ps, role) ==
    LET Matches(p) == p.value.role = PyStr(role)
    IN [k \in 1..Len(SelectSeq(ps, Matches)) |-> SelectSeq(ps, Matches)[k].value]

Values(ps) == [k \in 1..Len(ps) |-> ps[k].value]

\* get_author(records)
get_author(rec) ==
    LET p100 == Persons(get_fields(rec, "100"))
        p700 == Persons(get_fields(rec, "700"))
    IN IF SomeRaised(p100) \/ SomeRaised(p700)
       THEN Raised(AttributeError)
       ELSE Returned(Values(p100) \o WithRole(p700, <<"a", "u", "t">>))

\* get_recipient(records)
get_recipient(rec) ==
    LET p700 == Persons(get_fields(rec, "700"))
    IN IF SomeRaised(p700)
       THEN Raised(AttributeError)
       ELSE Returned(WithRole(p700, <<"r", "c", "p">>))

\* get_mentioned_persons(records)
get_mentioned_persons(rec) ==
    LET p600 == Persons(get_fields(rec, "600"))
    IN IF SomeRaised(p600)
       THEN Raised(AttributeError)
       ELSE Returned(Values(p600))

\* The result of a composite extraction: None, or a dictionary.
NoDict == [none |-> TRUE, dict |-> <<>>]

(* The body of the loop of a composite extraction for one field: the first   *)
(* subfield, when present, starts a new dictionary; each further subfield,   *)
(* when present, is put into the dictionary there is, or starts one.         *)
RECURSIVE MergeRest(_, _, _)
MergeRest(acc, field, rest) ==
    IF rest = <<>>
    THEN acc
    ELSE LET code == Head(rest)[1]
             attr == Head(rest)[2]
             nxt  == IF Has(field, code)
                     THEN [none |-> FALSE,
                           dict |-> DictSet(acc.dict, attr, encode(Sub(field, code)))]
                     ELSE acc
         IN MergeRest(nxt, field, Tail(rest))

\* The loop body for one field; parts are the <<code, attribute>> pairs.
CompositeStep(acc, field, parts) ==
    LET first == IF Has(field, parts[1][1])
                 THEN [none |-> FALSE,
                       dict |-> DictSet(<<>>, parts[1][2], encode(Sub(field, parts[1][1])))]
                 ELSE acc
    IN MergeRest(first, field, Tail(parts))

RECURSIVE CompositeFold(_, _, _)
CompositeFold(acc, fs, parts) ==
    IF fs = <<>>
    THEN acc
    ELSE CompositeFold(CompositeStep(acc, Head(fs), parts), Tail(fs), parts)

\* The tag and the <<subfield code, attribute>> pairs of each composite extraction.
DescriptionParts == <<<<"a", "title">>, <<"c", "author">>>>
CreationPlaceParts == <<<<"a", "place">>, <<"0", "gnd">>>>
PhysicalParts == <<<<"a", "amount">>, <<"c", "format">>>>
BibliographicalParts == <<<<"a", "reference">>, <<"i", "type">>>>
ReproductionParts ==
    <<<<"a", "type">>, <<"b", "place">>, <<"c", "institution">>,
      <<"d", "year">>, <<"n", "additional">>>>

\* get_description(records)
get_description(rec) ==
    Returned(CompositeFold(NoDict, get_fields(rec, "245"), DescriptionParts))

\* get_creation_place(records)
get_creation_place(rec) ==
    Returned(CompositeFold(NoDict, get_fields(rec, "751"), CreationPlaceParts))

\* get_physical_description(records)
get_physical_description(rec) ==
    Returned(CompositeFold(NoDict, get_fields(rec, "300"), PhysicalParts))

\* get_bibliographical_info(records)
get_bibliographical_info(rec) ==
    Returned(CompositeFold(NoDict, get_fields(rec, "510"), BibliographicalParts))

\* get_reproduction_info(records)
get_reproduction_info(rec) ==
    Returned(CompositeFold(NoDict, get_fields(rec, "533"), ReproductionParts))

(* The single-value extractions: the subfield of the last field of the tag   *)
(* that has it, encoded or as it is; None when no field has it.              *)
RECURSIVE LastWith(_, _)
LastWith(fs, code) ==
    IF fs = <<>>
    THEN PyNone
    ELSE IF Has(fs[Len(fs)], code)
         THEN Sub(fs[Len(fs)], code)
         ELSE LastWith(SubSeq(fs, 1, Len(fs) - 1), code)

Encoded(v) == IF v = PyNone THEN PyNone ELSE encode(v)

\* get_creation_form(records)
get_creation_form(rec) == Returned(Encoded(LastWith(get_fields(rec, "250"), "a")))
\* get_footnote(records)
get_footnote(rec) == Returned(Encoded(LastWith(get_fields(rec, "500"), "a")))
\* get_content_info(records)
get_content_info(rec) == Returned(Encoded(LastWith(get_fields(rec, "520"), "a")))
\* get_accompanying_material(records)
get_accompanying_material(rec) == Returned(LastWith(get_fields(rec, "525"), "a"))
\* get_language(records)
get_language(rec) == Returned(Encoded(LastWith(get_fields(rec, "546"), "a")))
\* get_bernoulli_work_reference(records)
get_bernoulli_work_reference(rec) == Returned(LastWith(get_fields(rec, "596"), "a"))
\* get_emanuscript_link(records)
get_emanuscript_link(rec) == Returned(LastWith(get_fields(rec, "856"), "u"))

\* The texts a subfield of the model's records holds.
Tokens == {"x", "y"}

\* The role codes of a person field: author, recipient, another one.
Roles == {<<"a", "u", "t">>, <<"r", "c", "p">>, <<"e", "d", "t">>}

\* The text of subfield code in a field of token v; an identifier ends in a comma.
Text(code, v) == IF code = "0" THEN <<v, ",">> ELSE <<v>>

\* The fields of a tag: every choice of present subfields among codes.
FieldsOf(tag, codes) ==
    {[tag |-> tag, sub |-> [c \in S |-> Text(c, v)]] : S \in SUBSET codes, v \in Tokens}

\* The person fields of a tag: name a, identifier 0, date d, role 4.
PersonFields(tag) ==
    {[tag |-> tag,
      sub |-> [c \in S |-> IF c = "4" THEN role ELSE Text(c, v)]] :
        S \in SUBSET {"a", "0", "d", "4"}, v \in Tokens, role \in Roles}

\* The fields each extraction function reads, one set per function.
Families ==
    { FieldsOf("035", {"a"}),
      FieldsOf("046", {"c"}),
      PersonFields("100") \cup PersonFields("700"),
      PersonFields("600"),
      FieldsOf("245", {"a", "c"}),
      FieldsOf("250", {"a"}),
      FieldsOf("751", {"a", "0"}),
      FieldsOf("300", {"a", "c"}),
      FieldsOf("500", {"a"}),
      FieldsOf("510", {"a", "i"}),
      FieldsOf("520", {"a"}),
      FieldsOf("525", {"a"}),
      FieldsOf("533", {"a", "b", "c", "d", "n"}),
      FieldsOf("546", {"a"}),
      FieldsOf("596", {"a"}),
      FieldsOf("856", {"u"}) }

\* The records of the model: up to MaxFields fields of one family, in any order.
Records == UNION {SeqUpTo(F, MaxFields) : F \in Families}

NoCall == [fn |-> "none", out |-> Returned(PyNone)]

\* A caller applies one extraction function to the record.
Call(fn, out) ==
    /\ extracted' = [fn |-> fn, out |-> out]
    /\ UNCHANGED <<records, python>>

ExtractInit ==
    /\ records \in Records
    /\ python \in {"2", "3"}
    /\ extracted = NoCall

ExtractRest ==
    /\ records = <<>>
    /\ python = "3"
    /\ extracted = NoCall

NumRest ==
    /\ nh_force_all = FALSE
    /\ nh_is_test = FALSE
    /\ testable = {}
    /\ all_numbers_txt = <<>>
    /\ xml = <<>>
    /\ existing_numbers = {}
    /\ nh_pc = "idle"
    /\ used_numbers = <<>>
    /\ list_for_dummies = <<>>

vars == <<mvars, nvars, xvars>>

Init == MarcInit /\ NumRest /\ ExtractRest

\* marc_handler at work, number_handler at rest.
Next ==
    \/ \E nos \in SeqUpTo(Ids, MaxNos), force \in BOOLEAN, test \in BOOLEAN :
          StartBatch(nos, force, test) /\ UNCHANGED <<nvars, xvars>>
    \/ \E outcome \in RemoteOutcomes : LoopStep(outcome) /\ UNCHANGED <<nvars, xvars>>
    \/ LoopDone /\ UNCHANGED <<nvars, xvars>>
    \/ \E k \in 1..MaxNos, outcome \in RemoteOutcomes :
          TestStep(k, outcome) /\ UNCHANGED <<nvars, xvars>>
    \/ \E no \in Ids, outcome \in RemoteOutcomes :
          CallGetMarc(no, outcome) /\ UNCHANGED <<nvars, xvars>>
    \/ \E no \in Ids, outcome \in RemoteOutcomes :
          CallReadMc(no, outcome) /\ UNCHANGED <<nvars, xvars>>
    \/ Return /\ UNCHANGED <<nvars, xvars>>
    \/ Restart /\ UNCHANGED <<nvars, xvars>>

Spec == Init /\ [][Next]_vars

InitNum == MarcInit /\ NumInit /\ ExtractRest

\* number_handler at work, marc_handler at rest.
NextNum ==
    \/ \E force \in BOOLEAN, test \in BOOLEAN, testable_no \in TestableNos :
          GetSysNos(force, test, testable_no) /\ UNCHANGED <<mvars, xvars>>
    \/ NhReturn /\ UNCHANGED <<mvars, xvars>>
    \/ \E f \in XmlFiles : AddXml(f) /\ UNCHANGED <<mvars, xvars>>

SpecNum == InitNum /\ [][NextNum]_vars

InitExtract == MarcInit /\ NumRest /\ ExtractInit

\* The extraction functions at work on one record, the handlers at rest.
NextExtract ==
    \/ Call("get_system_number", get_system_number(records)) /\ UNCHANGED <<mvars, nvars>>
    \/ Call("get_date", get_date(records)) /\ UNCHANGED <<mvars, nvars>>
    \/ Call("get_author", get_author(records)) /\ UNCHANGED <<mvars, nvars>>
    \/ Call("get_recipient", get_recipient(records)) /\ UNCHANGED <<mvars, nvars>>
    \/ Call("get_mentioned_persons", get_mentioned_persons(records)) /\ UNCHANGED <<mvars, nvars>>
    \/ Call("get_description", get_description(records)) /\ UNCHANGED <<mvars, nvars>>
    \/ Call("get_creation_form", get_creation_form(records)) /\ UNCHANGED <<mvars, nvars>>
    \/ Call("get_creation_place", get_creation_place(records)) /\ UNCHANGED <<mvars, nvars>>
    \/ Call("get_physical_description", get_physical_description(records)) /\ UNCHANGED <<mvars, nvars>>
    \/ Call("get_footnote", get_footnote(records)) /\ UNCHANGED <<mvars, nvars>>
    \/ Call("get_bibliographical_info", get_bibliographical_info(records)) /\ UNCHANGED <<mvars, nvars>>
    \/ Call("get_content_info", get_content_info(records)) /\ UNCHANGED <<mvars, nvars>>
    \/ Call("get_accompanying_material", get_accompanying_material(records)) /\ UNCHANGED <<mvars, nvars>>
    \/ Call("get_reproduction_info", get_reproduction_info(records)) /\ UNCHANGED <<mvars, nvars>>
    \/ Call("get_language", get_language(records)) /\ UNCHANGED <<mvars, nvars>>
    \/ Call("get_bernoulli_work_reference", get_bernoulli_work_reference(records)) /\ UNCHANGED <<mvars, nvars>>
    \/ Call("get_emanuscript_link", get_emanuscript_link(records)) /\ UNCHANGED <<mvars, nvars>>

SpecExtract == InitExtract /\ [][NextExtract]_vars

\* ------------------------------------------------------------------ claims

Range(s) == {s[k] : k \in 1..Len(s)}

IsRecord(r) == r.kind = "record"

\* The outcomes of the fetches of the running batch, in the order they were made.
LogRets == [k \in 1..Len(log) |-> log[k].ret]

\* The operation kept in last ran inside get_info_from_aleph.
InBatch == pc \in {"loop", "done", "aborted"}

(* C1: a non-forced get_marc(no) of an identifier that has a cache entry     *)
(* makes no remote call, leaves the cached bytes as they were and yields     *)
(* what decoding exactly those bytes yields (the record, or the decoder's    *)
(* error when the cached bytes are malformed); this holds for every such     *)
(* fetch, repeated or not.                                                   *)
C1_CachedFetchIsLocal ==
    (last.op = "get_marc" /\ ~force_all /\ last.before # {}) =>
        /\ last.calls = <<>>
        /\ Entry(cache, last.no) = last.before
        /\ \A d \in last.before : last.ret = Decode(d)

\* C1 witness: the same cached identifier fetched twice in one normal batch, with equal records.
C1_Witness ==
    /\ pc = "loop" /\ ~force_all /\ i = 3
    /\ no_list[1] = no_list[2]
    /\ last.op = "get_marc" /\ last.before # {} /\ last.calls = <<>>
    /\ IsRecord(res[1]) /\ res[1] = res[2]

(* C2 as stated: with force mode on, every get_marc(no) makes a remote call  *)
(* and afterwards the cache entry of no holds the bytes of that call.        *)
C2_ForcedFetchOverwrites ==
    (last.op = "get_marc" /\ force_all) =>
        /\ Len(last.calls) = 1
        /\ last.calls[1].kind = "data"
        /\ Entry(cache, last.no) = {last.calls[1].data}

(* C2 amended: with force mode on, every get_marc(no) makes exactly one      *)
(* remote call; when the call returns bytes the cache entry of no holds them *)
(* afterwards whatever it held before, and when the call ends in a           *)
(* connection failure the entry is what it was before.                       *)
C2_ForcedFetchOverwritesOnData ==
    (last.op = "get_marc" /\ force_all) =>
        /\ Len(last.calls) = 1
        /\ IF last.calls[1] = ConnectionError
           THEN Entry(cache, last.no) = last.before
           ELSE Entry(cache, last.no) = {last.calls[1].data}

\* C2 witness: a forced fetch has replaced an entry by different bytes.
C2_Witness ==
    /\ last.op = "get_marc" /\ force_all
    /\ last.before # {}
    /\ Len(last.calls) = 1 /\ last.calls[1].kind = "data"
    /\ last.before # {last.calls[1].data}
    /\ Entry(cache, last.no) = {last.calls[1].data}

(* C3: a step changes the cached bytes of an identifier only when the force  *)
(* flag is on, the test flag is on, or the identifier had no cache entry     *)
(* right before the step; so with both flags off an existing entry is never  *)
(* modified.                                                                 *)
C3_WritePolicy ==
    [][\A id \in Ids :
          Entry(cache', id) # Entry(cache, id) =>
              (force_all \/ is_test \/ Entry(cache, id) = {})]_vars

(* C3 witness: with both flags off, read_mc fetched bytes that differ from   *)
(* the cached ones and the entry kept its bytes.                             *)
C3_Witness ==
    /\ last.op = "read_mc" /\ ~force_all /\ ~is_test
    /\ last.before # {}
    /\ Len(last.calls) = 1 /\ last.calls[1].kind = "data"
    /\ last.before # {last.calls[1].data}
    /\ Entry(cache, last.no) = last.before

(* C4 as stated: the list a normal-mode batch returns holds exactly one      *)
(* element per identifier whose fetch succeeded, a connection failure        *)
(* contributing none.                                                        *)
C4_FailedIdOmitted ==
    (pc = "done" /\ ~is_test) => res = SelectSeq(LogRets, IsRecord)

(* C5 as stated: a failure on one identifier never stops the batch, so no    *)
(* batch ends by the error of one of its fetches.                            *)
C5_BatchAlwaysCompletes ==
    ~(pc = "aborted" /\ last.op # "none")

(* C6: a non-forced get_marc(no) of an identifier without a cache entry      *)
(* makes exactly one remote call; when the catalogue answers, the entry of   *)
(* no holds the bytes exactly as returned, the value yielded is what         *)
(* decoding those bytes yields, and the entry of every other identifier is   *)
(* as it was before.                                                         *)
C6_MissFetchesAndCaches ==
    [][(last'.op = "get_marc" /\ ~force_all' /\ last'.before = {}) =>
          /\ Len(last'.calls) = 1
          /\ last'.calls[1].kind = "data" =>
                /\ Entry(cache', last'.no) = {last'.calls[1].data}
                /\ last'.ret = Decode(last'.calls[1].data)
                /\ \A id \in Ids \ {last'.no} :
                      Entry(cache', id) = Entry(cache, id)]_vars

(* C6 witness: such a fetch created the entry and returned the record, while *)
(* another identifier has an entry of its own.                               *)
C6_Witness ==
    /\ last.op = "get_marc" /\ ~force_all /\ last.before = {}
    /\ Len(last.calls) = 1 /\ last.calls[1].kind = "data"
    /\ IsRecord(last.ret)
    /\ Entry(cache, last.no) = {last.calls[1].data}
    /\ \E id \in Ids \ {last.no} : Entry(cache, id) # {}

(* C7 as stated: in a batch that is not forced (normal or test mode) no      *)
(* remote request is made for an identifier that has a cache entry when it   *)
(* is processed.                                                             *)
C7_NoRemoteOnHitUnlessForced ==
    (InBatch /\ ~force_all /\ last.op # "none" /\ last.before # {}) =>
        last.calls = <<>>

(* C7 amended: in a normal batch (neither forced nor test) no remote request *)
(* is made for an identifier that has a cache entry when it is processed,    *)
(* a later occurrence of an identifier cached earlier in the run included;   *)
(* a test batch always makes a remote request for the identifier it draws.   *)
C7_NoRemoteOnHitInNormalRun ==
    /\ (InBatch /\ ~force_all /\ ~is_test /\ last.op # "none" /\ last.before # {}) =>
           last.calls = <<>>
    /\ (InBatch /\ is_test /\ last.op # "none") => Len(last.calls) = 1

(* C7 witness: in a normal batch the second occurrence of an identifier,     *)
(* fetched remotely at its first occurrence, is served from the cache.       *)
C7_Witness ==
    /\ pc = "loop" /\ ~force_all /\ ~is_test /\ i = 3
    /\ no_list[1] = no_list[2]
    /\ last.calls = <<>>
    /\ last.before # {}
    /\ IsRecord(res[2])

(* C8: a normal-mode batch makes one fetch per list position, in list order, *)
(* the k-th element of res is the outcome of the fetch of the k-th           *)
(* identifier, and the list returned is as long as the identifier list.      *)
C8_NormalModeInOrder ==
    /\ (pc \in {"loop", "done"} /\ ~is_test) =>
           /\ Len(res) = i - 1
           /\ Len(log) = Len(res)
           /\ \A k \in 1..Len(res) : log[k].no = no_list[k] /\ res[k] = log[k].ret
    /\ (pc = "done" /\ ~is_test) => Len(res) = Len(no_list)

\* C8 witness: a normal batch over two different identifiers returned two different records.
C8_Witness ==
    /\ pc = "done" /\ ~is_test
    /\ Len(no_list) = 2 /\ no_list[1] # no_list[2]
    /\ IsRecord(res[1]) /\ IsRecord(res[2]) /\ res[1] # res[2]

(* C9 as stated: for every list, the empty one included, a test-mode batch   *)
(* fetches exactly one identifier, a member of the list, and returns a       *)
(* sequence of one element.  (The error of a decoder that refuses the        *)
(* fetched bytes is C5's matter and is left aside here.)                     *)
C9_TestModeOneElement ==
    (is_test /\ pc \in {"done", "aborted"} /\ last.ret # FormatError) =>
        /\ pc = "done"
        /\ last.op = "test_mc"
        /\ last.no \in Range(no_list)
        /\ Len(res) = 1

(* C9 amended: for every non-empty list a test-mode batch fetches exactly    *)
(* one identifier, a member of the list, changes the cache entry of no other *)
(* identifier, and returns the one-element sequence holding the outcome of   *)
(* that fetch, unless the decoder refuses the fetched bytes, in which case   *)
(* the batch ends by that error; for an empty list the draw itself raises    *)
(* and nothing is fetched or returned.                                       *)
C9_TestModeOneElementNonEmpty ==
    [][pc = "test" =>
          IF no_list = <<>>
          THEN pc' = "aborted" /\ log' = <<>> /\ res' = <<>> /\ cache' = cache
          ELSE /\ last'.op = "test_mc"
               /\ last'.no \in Range(no_list)
               /\ log' = <<[no |-> last'.no, ret |-> last'.ret]>>
               /\ \A id \in Ids \ {last'.no} : Entry(cache', id) = Entry(cache, id)
               /\ IF last'.ret = FormatError
                  THEN pc' = "aborted" /\ res' = <<>>
                  ELSE pc' = "done" /\ res' = <<last'.ret>>]_vars

(* C9 witness: a test batch over a list of two identifiers fetched the       *)
(* second one and returned its record, the first one keeping its entry.      *)
C9_Witness ==
    /\ is_test /\ pc = "done"
    /\ Len(no_list) = 2 /\ no_list[1] # no_list[2]
    /\ last.op = "test_mc" /\ last.no = no_list[2]
    /\ Len(res) = 1 /\ IsRecord(res[1])
    /\ Entry(cache, no_list[1]) # {}

\* The catalogue ids of the XML files now in data/input/xml, surrounding blanks aside.
XmlCatalogueIds ==
    {strip(xml[k].catalogue_id) : k \in {j \in 1..Len(xml) : xml[j].kind = "xml"}}

\* The numbers grab_used_nos would list now, surrounding blanks aside.
UsedNow == {strip(get_by_name(xml[k])) : k \in 1..Len(xml)}

\* The numbers listed in the text of data/tmp/existing_numbers.txt.
UsedIn(text) == {strip(l) : l \in Range(ReadLines(text))}

\* The numbers of the master list that are not in the set used, in master-list order.
MasterWithout(used) ==
    LET Keep(no) == no \notin used
    IN SelectSeq(get_all_sys_nos, Keep)

(* C10 as stated: the list a normal run of get_sys_nos_to_work_with returns  *)
(* holds exactly the master-list numbers that are not the catalogue id of an *)
(* XML file present at the time of the run, in master-list order, whatever   *)
(* runs and additions of XML files came before.                              *)
C10_DeltaAgainstXmlNow ==
    (nh_pc = "returned" /\ ~nh_force_all /\ ~nh_is_test) =>
        list_for_dummies = MasterWithout(XmlCatalogueIds)

(* C10 amended: the list a normal run returns holds exactly the master-list  *)
(* numbers that are not in the used-numbers list, in master-list order; the  *)
(* used-numbers list is what data/tmp/existing_numbers.txt lists when that   *)
(* file exists at the start of the run (the file is then left as it is), and *)
(* only otherwise the catalogue ids of the XML files present at the time of  *)
(* the run (which the run writes to the file).                               *)
C10_DeltaAgainstUsedList ==
    [][(nh_pc' = "returned" /\ ~nh_force_all' /\ ~nh_is_test') =>
          IF existing_numbers # {}
          THEN /\ existing_numbers' = existing_numbers
               /\ \A t \in existing_numbers :
                     list_for_dummies' = MasterWithout(UsedIn(t))
          ELSE /\ existing_numbers' # {}
               /\ \A t \in existing_numbers' : UsedIn(t) = UsedNow
               /\ list_for_dummies' = MasterWithout(UsedNow)]_vars

(* C10 witness: a normal run returned a number although an XML file with     *)
(* that catalogue id is in the directory: the file was added after           *)
(* existing_numbers.txt had been written.                                    *)
C10_Witness ==
    /\ nh_pc = "returned" /\ ~nh_force_all /\ ~nh_is_test
    /\ \E k \in 1..Len(list_for_dummies) : list_for_dummies[k] \in XmlCatalogueIds
    /\ \E k \in 1..Len(list_for_dummies) : list_for_dummies[k] \notin XmlCatalogueIds

\* The run-mode state of marc_handler.
RunMode == <<force_all, is_test, no_list>>

(* C14 as stated: the bytes of an existing cache entry change in a step of  *)
(* a batch only if the batch is a forced run; no step of a normal run or of *)
(* a test run changes them.                                                 *)
C14_OnlyForcedRunMutates ==
    [][\A id \in Ids :
          (/\ pc \in {"loop", "test"}
           /\ Entry(cache, id) # {}
           /\ Entry(cache', id) # Entry(cache, id)) =>
              force_all]_vars

(* C14 amended: an existing cache entry is never removed, and its bytes      *)
(* change in a step only if the force flag or the test flag is on; no step   *)
(* of a normal run changes an existing entry, a test run overwrites the      *)
(* entry of the identifier it draws.                                         *)
C14_OnlyForcedOrTestRunMutates ==
    [][\A id \in Ids :
          Entry(cache, id) # {} =>
              /\ Entry(cache', id) # {}
              /\ Entry(cache', id) # Entry(cache, id) => (force_all \/ is_test)]_vars

\* C14 witness: a test run that is not forced has replaced the bytes of an existing entry.
C14_Witness ==
    /\ last.op = "test_mc" /\ is_test /\ ~force_all
    /\ last.before # {}
    /\ Entry(cache, last.no) # last.before

(* C16: the force flag, the test flag and the identifier list are set when a *)
(* batch starts and by no later step of it: no fetch, cache read, cache      *)
(* write or remote call changes them; apart from a batch start they change   *)
(* only when a new process starts, which finds them at their initial values  *)
(* (nothing of them is stored).                                              *)
C16_RunModeSetOnce ==
    [][RunMode' # RunMode =>
          /\ pc = "idle"
          /\ \/ pc' \in {"loop", "test"}
             \/ pc' = "idle" /\ RunMode' = <<FALSE, FALSE, <<>>>>]_vars

(* C16 witness: a forced batch over two identifiers has made both fetches,   *)
(* written the cache, and the run-mode state is the one of a forced run.     *)
C16_Witness ==
    /\ pc = "done" /\ force_all /\ ~is_test
    /\ Len(no_list) = 2 /\ Len(log) = 2
    /\ DOMAIN cache # {}

(* C18: a remote call that ends in a connection failure leaves every cache   *)
(* entry as it was, whatever the flags are, and yields no record.            *)
C18_ConnectionFailureLeavesCache ==
    [][(last'.op # "none" /\ last'.calls = <<ConnectionError>>) =>
          /\ cache' = cache
          /\ last'.ret = None]_vars

\* C18 witness: a forced fetch of a cached identifier could not connect; the entry is as before.
C18_Witness ==
    /\ force_all /\ last.op = "get_marc"
    /\ last.calls = <<ConnectionError>>
    /\ last.before # {}
    /\ Entry(cache, last.no) = last.before
    /\ last.ret = None

\* The cache entry of id exists and holds bytes the decoder refuses.
Undecodable(id) ==
    Entry(cache, id) # {} /\ \A d \in Entry(cache, id) : Decode(d) = FormatError

(* C19: read_mc caches the fetched bytes before it decodes them: after a     *)
(* remote call that returned bytes the entry holds them whenever the write   *)
(* policy allows the write, also when decoding fails; a later non-forced     *)
(* get_marc of a cached identifier reads exactly the cached bytes without a  *)
(* remote call; and an undecodable entry changes only in a step made with    *)
(* the force flag or the test flag on.                                       *)
C19_WriteBeforeDecode ==
    [][/\ (/\ last'.op # "none"
           /\ Len(last'.calls) = 1
           /\ last'.calls[1].kind = "data"
           /\ (force_all' \/ is_test' \/ last'.before = {})) =>
              Entry(cache', last'.no) = {last'.calls[1].data}
       /\ (last'.op = "get_marc" /\ ~force_all' /\ last'.before # {}) =>
              /\ last'.calls = <<>>
              /\ \A d \in last'.before : last'.ret = Decode(d)
       /\ \A id \in Ids :
              (Undecodable(id) /\ Entry(cache', id) # Entry(cache, id)) =>
                  (force_all \/ is_test)]_vars

(* C19 witness: a non-forced get_marc has read an undecodable entry from the *)
(* cache, without a remote call, and the entry is still there.               *)
C19_Witness ==
    /\ last.op = "get_marc" /\ ~force_all
    /\ last.before # {}
    /\ last.calls = <<>>
    /\ last.ret = FormatError
    /\ Entry(cache, last.no) = last.before

\* An XML file of the directory has no catalogue_id attribute.
SomeXmlWithoutId == \E k \in 1..Len(xml) : xml[k].kind = "no_attribute"

\* What grab_used_nos lists before its first None (all of it when there is none).
RECURSIVE BeforeNone(_)
BeforeNone(lst) ==
    IF lst = <<>> \/ Head(lst) = NoneValue
    THEN <<>>
    ELSE <<Head(lst)>> \o BeforeNone(Tail(lst))

(* C15: get_used_sys_no_list reads the XML files and writes the cache file   *)
(* whenever the run is forced, is a test run, or no cache file exists: the   *)
(* file then exists and lists the numbers of the XML files, and these are    *)
(* the list returned (when an XML file has no catalogue_id the write stops   *)
(* at it with an error and the file lists the numbers before it).  In a      *)
(* normal run with an existing cache file the file is left as it is and the  *)
(* list returned is the one the file lists, whatever the XML files are.      *)
C15_UsedListCaching ==
    [][(nh_pc = "idle" /\ nh_pc' # "idle") =>
          IF nh_force_all' \/ nh_is_test' \/ existing_numbers = {}
          THEN /\ existing_numbers' # {}
               /\ \A t \in existing_numbers' :
                     crop_list(ReadLines(t)) = crop_list(BeforeNone(grab_used_nos))
               /\ IF SomeXmlWithoutId
                  THEN nh_pc' = "raised"
                  ELSE used_numbers' = crop_list(grab_used_nos)
          ELSE /\ existing_numbers' = existing_numbers
               /\ \A t \in existing_numbers :
                     used_numbers' = crop_list(ReadLines(t))]_vars

(* C15 witness: a normal run with an existing cache file returned, and its   *)
(* used list lacks the catalogue id of an XML file of the directory.         *)
C15_Witness ==
    /\ nh_pc = "returned" /\ ~nh_force_all /\ ~nh_is_test
    /\ used_numbers # <<>>
    /\ \E id \in XmlCatalogueIds : id \notin Range(used_numbers)

\* The master-list numbers a run that regenerates the used list takes as unused.
DeltaNow == MasterWithout(UsedNow)

(* C17: in a test run the result is the one-element list of the number named *)
(* when one is named, and otherwise a list of numbers of the delta; a list   *)
(* is returned for every input, an empty delta included.                     *)
(* (A run that ends in write_used_nos, before the operation is reached, is   *)
(* left aside.)                                                              *)
C17_TestSampleAlwaysReturned ==
    (nh_is_test /\ nh_pc # "idle" /\ ~SomeXmlWithoutId) =>
        /\ nh_pc = "returned"
        /\ IF testable # {}
           THEN \A t \in testable : list_for_dummies = <<t>>
           ELSE Range(list_for_dummies) \subseteq Range(DeltaNow)

\* -------------------------------------------------- field extraction claims

(* C11: no extraction function ends in an error: whatever optional field or  *)
(* subfield the record lacks, the function called on it returns a value.     *)
C11_ExtractorsNeverFail == ~extracted.out.raised

\* The tag and the parts of each composite extraction function.
Composite ==
    [get_description |-> [tag |-> "245", parts |-> DescriptionParts],
     get_creation_place |-> [tag |-> "751", parts |-> CreationPlaceParts],
     get_physical_description |-> [tag |-> "300", parts |-> PhysicalParts],
     get_bibliographical_info |-> [tag |-> "510", parts |-> BibliographicalParts],
     get_reproduction_info |-> [tag |-> "533", parts |-> ReproductionParts]]

\* The record is two occurrences of the tag whose common subfields differ in value.
TwoOccurrences(tag) ==
    /\ Len(records) = 2
    /\ records[1].tag = tag
    /\ records[2].tag = tag
    /\ \A c \in DOMAIN records[1].sub \cap DOMAIN records[2].sub :
          records[1].sub[c] # records[2].sub[c]

(* C12: when the tag of a composite extraction occurs twice with different   *)
(* subfield values, every attribute of the output carries the value of the   *)
(* later occurrence; no value of the earlier occurrence survives.            *)
C12_LastOccurrenceWins ==
    \A fn \in DOMAIN Composite :
        (extracted.fn = fn /\ TwoOccurrences(Composite[fn].tag)) =>
            LET parts == Composite[fn].parts
                out == extracted.out.value
            IN \A k \in 1..Len(parts) :
                  parts[k][2] \in DOMAIN out.dict =>
                      /\ Has(records[2], parts[k][1])
                      /\ out.dict[parts[k][2]] = encode(Sub(records[2], parts[k][1]))

\* The names of the person fields fs, in order.
Names(fs) == [k \in 1..Len(fs) |-> fs[k].sub["a"]]

\* The names of the persons an extraction function returned, in order.
NamesReturned(ps) == [k \in 1..Len(ps) |-> ps[k].name.chars]

\* The 700 fields of the record whose role subfield is role, in order.
PersonsInRole(role) ==
    LET InRole(f) == Has(f, "4") /\ f.sub["4"] = role
    IN SelectSeq(get_fields(records, "700"), InRole)

\* Every person field of the record has a name.
AllNamed == \A k \in 1..Len(records) : Has(records[k], "a")

(* C13: of the 700 fields of a record (all of them named), exactly those     *)
(* with role aut are in the author list, after the 100 fields, and exactly   *)
(* those with role rcp are in the recipient list, each in record order; a    *)
(* 700 field with another role or none is in neither.                       *)
C13_RoleRouting ==
    AllNamed =>
        /\ extracted.fn = "get_author" =>
              /\ ~extracted.out.raised
              /\ NamesReturned(extracted.out.value) =
                    Names(get_fields(records, "100")) \o Names(PersonsInRole(<<"a", "u", "t">>))
        /\ extracted.fn = "get_recipient" =>
              /\ ~extracted.out.raised
              /\ NamesReturned(extracted.out.value) = Names(PersonsInRole(<<"r", "c", "p">>))

====
